---- MODULE Spec2Model ----
(***************************************************************************)
(* PingMonitor (core/ping_monitor.py): the registry of monitored hosts,    *)
(* the background monitor thread and the threads that call the public API. *)
(*                                                                         *)
(* Interleaving is at the granularity of one statement of start(), stop()  *)
(* and _monitor_loop(); the blocking calls (ping3.ping, an observer call,  *)
(* time.sleep, Thread.join) are steps of their own, and the stop check of  *)
(* line 99 is one step with the call of ping3.ping it guards.  The running *)
(* out of the sleep interval is a step too.  The lookup of the             *)
(* record and the field assignments of one probe result (lines 72-83) are  *)
(* one step.  The monitor thread's status is the value of the record it    *)
(* updated: the record object has no other writer while one monitor thread *)
(* runs.                                                                   *)
(***************************************************************************)
EXTENDS Integers, Sequences, FiniteSets, TLC

\* ------------------------------------------------------------------ bounds
MaxClock == 2        \* completed probes (calls of datetime.now()) in a run
MaxThreads == 2      \* Thread objects created by start() in a run
MaxCallbacks == 2    \* length of the observer list
MaxAlerts == 3       \* calls of send_alert by the application in a run
MaxTime == 4         \* calls of datetime.now() in a run of probes with their alerts
MaxThreshold == 2    \* largest failure threshold tried
MaxLimit == 3        \* largest limit passed to get_alert_history

Hosts == {"10.0.0.1", "10.0.0.2"}
Groups == {"A", "B"}
\* (ip, group) of the calls of add_ip: the first host in either group, the
\* other in one
AddArgs == {a \in Hosts \X Groups : a[1] = "10.0.0.1" \/ a[2] = "A"}
Observers == <<"cb1", "cb2", "cb3">>   \* distinct callables, named in the order they get registered
GuiThread == {1}          \* the Qt main thread: the application's only caller
ApiThreads == {1, 2}      \* callers when the class is used from several threads
Threads == 1..MaxThreads  \* identities of the Thread objects start() creates

None == 0                 \* None, for a thread reference or a timestamp

\* ------------------------------------------------------------- ping3.ping
\* What ping3.ping(ip, timeout) hands back: the delay in seconds, None on a
\* timeout, False on an error (unknown host, unreachable destination), or an
\* exception.  False is the integer 0 in arithmetic.
Latencies == {2}
PingResults ==
    [tag : {"float"}, val : Latencies]
        \cup { [tag |-> "None", val |-> 0],
               [tag |-> "False", val |-> 0],
               [tag |-> "raise", val |-> 0] }

\* ------------------------------------------------------------------ state
VARIABLES
    monitored_ips,    \* dict ip -> IPStatus, as the sequence of its values in insertion order
    _stop_event,      \* threading.Event: is it set
    _monitor_thread,  \* None or the Thread object
    _callbacks,       \* list of observers, in registration order
    threads,          \* Thread object -> "none" | "new" | "alive" | "dead"
    wpc,              \* monitor thread: position in _monitor_loop / _ping_ip
    queue,            \* monitor thread: addresses of the snapshot still to iterate
    cur,              \* monitor thread: ip of the _ping_ip call in progress
    status,           \* monitor thread: the IPStatus _ping_ip holds
    cbIdx,            \* monitor thread: index of the next callback of the for loop
    cpc,              \* caller thread: position in start() / stop()
    joinTarget,       \* caller thread: the Thread object it is joining
    clock,            \* datetime.now()
    held,             \* what a caller keeps of the value get_status or get_all_status returned
    failure_threshold, \* PingMonitor.failure_threshold
    config,           \* AlertManager.config: the AlertConfig
    alert_history,    \* AlertManager.alert_history: list of alert dicts
    file,             \* the file at the path given to save/load_alert_history
    \* ---- history variables (observations, not program state)
    call,             \* the registry call made by this step, if any
    quiet,            \* a stop() has returned and no start() has begun since
    run,              \* per host: n > 0 after n failed probes in a row, -1 after a
                      \* probe that got a latency, 0 for a record not probed yet
    delivered,        \* monitor thread: observers invoked for the current update
    raised,           \* monitor thread: an observer raised during the current update
    alert             \* the AlertManager call made by this step, if any

progVars == <<monitored_ips, _stop_event, _monitor_thread, _callbacks, threads,
              wpc, queue, cur, status, cbIdx, cpc, joinTarget, clock, held>>
histVars == <<call, quiet, run, delivered, raised>>
alertVars == <<failure_threshold, config, alert_history, file, alert>>
vars == <<progVars, histVars, alertVars>>

workerVars == <<wpc, queue, cur, status, cbIdx>>
notifyHist == <<delivered, raised>>
probeHist == <<run>>

\* ------------------------------------------------------- dict operations
Keys(d) == [i \in 1..Len(d) |-> d[i].ip]

KeySet(d) == {d[i].ip : i \in 1..Len(d)}

Has(d, ip) == ip \in KeySet(d)

IndexOf(d, ip) == CHOOSE i \in 1..Len(d) : d[i].ip = ip

Get(d, ip) == d[IndexOf(d, ip)]

\* d[ip] = v: in place when the key is there, at the end otherwise
Put(d, ip, v) == IF Has(d, ip) THEN [d EXCEPT ![IndexOf(d, ip)] = v] ELSE Append(d, v)

\* del d[ip]
Del(d, ip) == SelectSeq(d, LAMBDA r : r.ip # ip)

\* --------------------------------------------------------------- IPStatus
\* a record that starts as online
NewStatus_online(ip, group) ==
    [ip |-> ip, is_online |-> TRUE, response_time |-> 0, last_success |-> None,
     last_failure |-> None, consecutive_failures |-> 0, group |-> group]

\* IPStatus(ip=ip, group=group), lines 13-21 and 47-55
NewStatus(ip, group) ==
    [ip |-> ip, is_online |-> FALSE, response_time |-> 0, last_success |-> None,
     last_failure |-> None, consecutive_failures |-> 0, group |-> group]

NoStatus == NewStatus("", "")

NoCall == [op |-> "none", ip |-> "", group |-> ""]

\* ------------------------------------------- values returned to a caller
\* get_status and get_all_status hand out the IPStatus objects of the dict,
\* not copies of them.  A returned reference is kept as: the address, the
\* value the object had when the call returned (at), the value it has now
\* (obj), and whether it still is the object the dict holds for the address
\* (live): _ping_ip writes the fields of the dict's object, remove_ip drops
\* the object from the dict.
Ref(st) == [ip |-> st.ip, at |-> st, obj |-> st, live |-> TRUE]

NoHeld == [op |-> "none", ip |-> "", same |-> FALSE, map |-> <<>>]

\* the dict handed out as it is
dict_same(d) == [same |-> TRUE, map |-> [i \in 1..Len(d) |-> Ref(d[i])]]

\* line 127: self.monitored_ips.copy(), a new dict with the same objects
dict_copy(d) == [same |-> FALSE, map |-> [i \in 1..Len(d) |-> Ref(d[i])]]

\* line 123: self.monitored_ips.get(ip): the object, or None (no reference)
get_status(d, ip) == IF Has(d, ip) THEN <<Ref(Get(d, ip))>> ELSE <<>>

\* lines 75-83 seen through a reference: the fields of the dict's object change
write_through(h, ip, st) ==
    [h EXCEPT !.map = [i \in 1..Len(h.map) |->
                          IF h.map[i].ip = ip /\ h.map[i].live
                          THEN [h.map[i] EXCEPT !.obj = st]
                          ELSE h.map[i]]]

\* line 61 seen through a reference: the object is no longer the dict's
detach(h, ip) ==
    [h EXCEPT !.map = [i \in 1..Len(h.map) |->
                          IF h.map[i].ip = ip
                          THEN [h.map[i] EXCEPT !.live = FALSE]
                          ELSE h.map[i]]]

\* the keys of the mapping a caller holds
HeldKeys ==
    IF held.same THEN Keys(monitored_ips) ELSE [i \in 1..Len(held.map) |-> held.map[i].ip]

\* ----------------------------------------------------------- AlertManager
DefaultThreshold == 3     \* failure_threshold of a PingMonitor built without arguments

Channels == <<"desktop", "sound", "email">>   \* in the order send_alert tries them
\* (ip, message, alert_type) of the calls of send_alert the application makes
AlertArgs == {<<"10.0.0.1", "down", "error">>, <<"10.0.0.2", "slow", "warning">>}
Recipients == {<<>>, <<"ops@example.org">>}

\* AlertConfig: the fields send_alert reads
Configs ==
    [desktop_notification : BOOLEAN, sound_alert : BOOLEAN, email_enabled : BOOLEAN,
     email_recipients : Recipients]

\* AlertConfig(), after _load_config with no ALERT_EMAIL_RECIPIENTS in the environment
DefaultConfig ==
    [desktop_notification |-> TRUE, sound_alert |-> TRUE, email_enabled |-> FALSE,
     email_recipients |-> <<>>]

\* the conditions of lines 67 and 78, and line 88 without its second operand
ChannelEnabled_no_recipients(cfg, ch) ==
    CASE ch = "desktop" -> cfg.desktop_notification
      [] ch = "sound" -> cfg.sound_alert
      [] ch = "email" -> cfg.email_enabled

\* the conditions of lines 67, 78 and 88
ChannelEnabled(cfg, ch) ==
    CASE ch = "desktop" -> cfg.desktop_notification
      [] ch = "sound" -> cfg.sound_alert
      [] ch = "email" -> cfg.email_enabled /\ cfg.email_recipients # <<>>

\* datetime.isoformat(): the text of a time
isoformat(t) == ToString(t)

\* lines 58-63
alert_data(now, ip, message, alert_type) ==
    [timestamp |-> isoformat(now), ip |-> ip, message |-> message, type |-> alert_type]

\* a channel's exception with no handler: it leaves send_alert
except_none(failed) == failed

\* "except Exception": does the exception of a channel leave send_alert;
\* lines 74-75, 84-85 and 112-113 catch it and log it
except_Exception(failed) == FALSE

\* one channel of send_alert: skipped once an exception has left the method
\* or when the channel is off, tried otherwise
try_channel(acc, cfg, ch, fails) ==
    IF acc.raised \/ ~ChannelEnabled(cfg, ch)
    THEN acc
    ELSE [attempted |-> Append(acc.attempted, ch),
          raised |-> except_Exception(ch \in fails)]

\* lines 67-89: the three channels in turn; fails are the channels whose
\* library call raises
send_channels(cfg, fails) ==
    try_channel(
        try_channel(
            try_channel([attempted |-> <<>>, raised |-> FALSE], cfg, "desktop", fails),
            cfg, "sound", fails),
        cfg, "email", fails)

\* an alert put at the front of the history
insert_alert(history, data) == <<data>> \o history

\* line 64: self.alert_history.append(alert_data)
append_alert(history, data) == Append(history, data)

\* seq[start:], a Python slice with a start and no stop
slice_from(seq, start) ==
    LET n == Len(seq)
        lo == IF start < 0
              THEN (IF n + start < 0 THEN 0 ELSE n + start)
              ELSE (IF start > n THEN n ELSE start)
    IN SubSeq(seq, lo + 1, n)

\* line 117: self.alert_history[-limit:]
get_alert_history(history, limit) == slice_from(history, 0 - limit)

\* json.dump of the history: a JSON array of objects, each the key/value
\* pairs of one alert dict, all of them strings
json_dump(history) ==
    [i \in 1..Len(history) |->
        << <<"timestamp", history[i].timestamp>>, <<"ip", history[i].ip>>,
           <<"message", history[i].message>>, <<"type", history[i].type>> >>]

\* json.load of such an array: a list of dicts
json_load(doc) ==
    [i \in 1..Len(doc) |->
        LET Value(key) == doc[i][CHOOSE j \in 1..Len(doc[i]) : doc[i][j][1] = key][2]
        IN [timestamp |-> Value("timestamp"), ip |-> Value("ip"),
            message |-> Value("message"), type |-> Value("type")]]

NoFile == [exists |-> FALSE, valid |-> FALSE, doc |-> <<>>]

\* a history loaded on top of the one in memory
load_history_extend(history, doc) == history \o json_load(doc)

\* line 137: self.alert_history = json.load(f)
load_history(history, doc) == json_load(doc)

\* a load that has emptied the history before it reads the file
load_clears(history) == <<>>

\* lines 139-140: open or json.load has raised before the assignment of line
\* 137; the handler logs the exception and the history is the one it was
load_failed(history) == history

\* the f-string of main_window.py line 300
Message(ip, failures) == "IP " \o ip \o " failed " \o ToString(failures)

\* main_window.py line 297, with == for >=
threshold_equal(failures, threshold) == failures = threshold

\* main_window.py line 297
threshold_reached(failures, threshold) == failures >= threshold

NoAlert ==
    [op |-> "none", sent |-> FALSE, ip |-> "", message |-> "", type |-> "",
     attempted |-> <<>>, failed |-> {}, raised |-> FALSE, updated |-> FALSE,
     limit |-> 0, result |-> <<>>, ok |-> TRUE, prev |-> 0]

\* the alert manager of a monitor that is used without one
AlertInit ==
    /\ failure_threshold = DefaultThreshold
    /\ config = DefaultConfig
    /\ alert_history = <<>>
    /\ file = NoFile
    /\ alert = NoAlert

\* ------------------------------------------------------------------- Init
Init ==
    /\ monitored_ips = <<>>
    /\ _stop_event = FALSE
    /\ _monitor_thread = None
    /\ _callbacks = <<>>
    /\ threads = [t \in Threads |-> "none"]
    /\ wpc = [t \in Threads |-> "while"]
    /\ queue = [t \in Threads |-> <<>>]
    /\ cur = [t \in Threads |-> ""]
    /\ status = [t \in Threads |-> NoStatus]
    /\ cbIdx = [t \in Threads |-> 1]
    /\ cpc = [c \in ApiThreads |-> "idle"]
    /\ joinTarget = [c \in ApiThreads |-> None]
    /\ clock = 0
    /\ held = NoHeld
    /\ call = NoCall
    /\ quiet = FALSE
    /\ run = [h \in Hosts |-> 0]
    /\ delivered = [t \in Threads |-> <<>>]
    /\ raised = [t \in Threads |-> FALSE]
    /\ AlertInit

\* ------------------------------------------------- registry and observers
\* add_ip without the membership test of line 46
add_ip_unguarded(d, ip, group) ==
    Put(d, ip, NewStatus(ip, group))

\* add_ip that moves an address it finds registered to the group given
add_ip_regroup(d, ip, group) ==
    IF ~Has(d, ip) THEN Put(d, ip, NewStatus(ip, group))
    ELSE Put(d, ip, [Get(d, ip) EXCEPT !.group = group])

\* add_ip, lines 46-55, on the dict
add_ip(d, ip, group) ==
    IF ~Has(d, ip) THEN Put(d, ip, NewStatus(ip, group)) ELSE d

\* a removal that empties the dict
remove_ip_clear(d, ip) ==
    IF Has(d, ip) THEN <<>> ELSE d

\* remove_ip, lines 60-61, on the dict
remove_ip(d, ip) ==
    IF Has(d, ip) THEN Del(d, ip) ELSE d

AddIp(c, ip, group) ==
    /\ cpc[c] = "idle"
    /\ monitored_ips' = add_ip(monitored_ips, ip, group)
    /\ call' = [op |-> "add", ip |-> ip, group |-> group]
    /\ held' = held
    /\ run' = IF Has(monitored_ips, ip) THEN run ELSE [run EXCEPT ![ip] = 0]
    /\ UNCHANGED <<_stop_event, _monitor_thread, _callbacks, threads, workerVars,
                   cpc, joinTarget, clock, quiet, notifyHist, alertVars>>

RemoveIp(c, ip) ==
    /\ cpc[c] = "idle"
    /\ monitored_ips' = remove_ip(monitored_ips, ip)
    /\ call' = [op |-> "remove", ip |-> ip, group |-> ""]
    /\ held' = IF Has(monitored_ips, ip) THEN detach(held, ip) ELSE held
    /\ run' = [run EXCEPT ![ip] = 0]
    /\ UNCHANGED <<_stop_event, _monitor_thread, _callbacks, threads, workerVars,
                   cpc, joinTarget, clock, quiet, notifyHist, alertVars>>

RegisterCallback(c, callback) ==
    /\ cpc[c] = "idle"
    /\ Len(_callbacks) < MaxCallbacks
    /\ callback = Observers[Len(_callbacks) + 1]
    /\ _callbacks' = Append(_callbacks, callback)
    /\ call' = NoCall
    /\ UNCHANGED <<monitored_ips, held, _stop_event, _monitor_thread, threads, workerVars,
                   cpc, joinTarget, clock, quiet, probeHist, notifyHist, alertVars>>

\* get_status(ip), lines 121-123; keep: the caller keeps the value returned
GetStatus(c, ip, keep) ==
    /\ cpc[c] = "idle"
    /\ call' = [op |-> "get", ip |-> ip, group |-> ""]
    /\ held' = IF keep
               THEN [op |-> "get", ip |-> ip, same |-> FALSE,
                     map |-> get_status(monitored_ips, ip)]
               ELSE held
    /\ UNCHANGED <<monitored_ips, _stop_event, _monitor_thread, _callbacks, threads,
                   workerVars, cpc, joinTarget, clock, quiet, probeHist, notifyHist,
                   alertVars>>

\* get_all_status(), lines 125-127; keep: the caller keeps the dict returned
GetAllStatus(c, keep) ==
    /\ cpc[c] = "idle"
    /\ call' = [op |-> "list", ip |-> "", group |-> ""]
    /\ held' = IF keep
               THEN LET m == dict_copy(monitored_ips)
                    IN [op |-> "list", ip |-> "", same |-> m.same, map |-> m.map]
               ELSE held
    /\ UNCHANGED <<monitored_ips, _stop_event, _monitor_thread, _callbacks, threads,
                   workerVars, cpc, joinTarget, clock, quiet, probeHist, notifyHist,
                   alertVars>>

\* the caller deletes a key of the dict get_all_status returned
ReturnedDel(c, ip) ==
    /\ cpc[c] = "idle"
    /\ held.op = "list"
    /\ \E i \in 1..Len(HeldKeys) : HeldKeys[i] = ip
    /\ call' = [op |-> "returned_del", ip |-> ip, group |-> ""]
    /\ IF held.same
       THEN /\ monitored_ips' = Del(monitored_ips, ip)
            /\ held' = held
       ELSE /\ monitored_ips' = monitored_ips
            /\ held' = [held EXCEPT !.map = SelectSeq(@, LAMBDA r : r.ip # ip)]
    /\ UNCHANGED <<_stop_event, _monitor_thread, _callbacks, threads,
                   workerVars, cpc, joinTarget, clock, quiet, probeHist, notifyHist,
                   alertVars>>

\* the caller puts an IPStatus of its own under a new key of the dict
\* get_all_status returned
ReturnedPut(c, ip, group) ==
    /\ cpc[c] = "idle"
    /\ held.op = "list"
    /\ \A i \in 1..Len(HeldKeys) : HeldKeys[i] # ip
    /\ call' = [op |-> "returned_put", ip |-> ip, group |-> group]
    /\ IF held.same
       THEN /\ monitored_ips' = Put(monitored_ips, ip, NewStatus(ip, group))
            /\ held' = held
       ELSE /\ monitored_ips' = monitored_ips
            /\ held' = [held EXCEPT !.map =
                            Append(@, [Ref(NewStatus(ip, group)) EXCEPT !.live = FALSE])]
    /\ UNCHANGED <<_stop_event, _monitor_thread, _callbacks, threads,
                   workerVars, cpc, joinTarget, clock, quiet, probeHist, notifyHist,
                   alertVars>>

\* -------------------------------------------------------------- start()
\* A caller step leaves the monitor threads' locals and the probe history alone.
CallerFrame ==
    /\ call' = NoCall
    /\ UNCHANGED <<monitored_ips, held, _callbacks, workerVars, clock, probeHist,
                   notifyHist, alertVars>>

\* line 106, left operand: self._monitor_thread is None
StartCheckNone(c) ==
    /\ cpc[c] = "idle"
    /\ cpc' = [cpc EXCEPT ![c] = IF _monitor_thread = None THEN "start_clear"
                                  ELSE "start_alive"]
    /\ quiet' = FALSE
    /\ CallerFrame
    /\ UNCHANGED <<_stop_event, _monitor_thread, threads, joinTarget>>

\* line 106, right operand: not self._monitor_thread.is_alive(); the attribute
\* is read again, and None has no is_alive (AttributeError ends the call)
StartCheckAlive(c) ==
    /\ cpc[c] = "start_alive"
    /\ cpc' = [cpc EXCEPT ![c] =
                 IF _monitor_thread = None THEN "idle"
                 ELSE IF threads[_monitor_thread] = "alive" THEN "idle"
                 ELSE "start_clear"]
    /\ CallerFrame
    /\ UNCHANGED <<_stop_event, _monitor_thread, threads, joinTarget, quiet>>

\* line 107
StartClear(c) ==
    /\ cpc[c] = "start_clear"
    /\ _stop_event' = FALSE
    /\ cpc' = [cpc EXCEPT ![c] = "start_new"]
    /\ CallerFrame
    /\ UNCHANGED <<_monitor_thread, threads, joinTarget, quiet>>

\* line 108: a new Thread object, not yet started
StartNew(c) ==
    /\ cpc[c] = "start_new"
    /\ \E t \in Threads :
        /\ threads[t] = "none"
        /\ \A u \in Threads : u < t => threads[u] # "none"
        /\ threads' = [threads EXCEPT ![t] = "new"]
        /\ _monitor_thread' = t
    /\ cpc' = [cpc EXCEPT ![c] = "start_daemon"]
    /\ CallerFrame
    /\ UNCHANGED <<_stop_event, joinTarget, quiet>>

\* line 109: self._monitor_thread.daemon = True; AttributeError on None,
\* RuntimeError when that thread is active
StartDaemon(c) ==
    /\ cpc[c] = "start_daemon"
    /\ cpc' = [cpc EXCEPT ![c] =
                 IF _monitor_thread = None THEN "idle"
                 ELSE IF threads[_monitor_thread] = "alive" THEN "idle"
                 ELSE "start_run"]
    /\ CallerFrame
    /\ UNCHANGED <<_stop_event, _monitor_thread, threads, joinTarget, quiet>>

\* lines 110-111: self._monitor_thread.start(); AttributeError on None,
\* RuntimeError when that thread was started before
StartRun(c) ==
    /\ cpc[c] = "start_run"
    /\ cpc' = [cpc EXCEPT ![c] = "idle"]
    /\ threads' = IF _monitor_thread # None /\ threads[_monitor_thread] = "new"
                  THEN [threads EXCEPT ![_monitor_thread] = "alive"]
                  ELSE threads
    /\ CallerFrame
    /\ UNCHANGED <<_stop_event, _monitor_thread, joinTarget, quiet>>

\* --------------------------------------------------------------- stop()
\* line 115
StopSet(c) ==
    /\ cpc[c] = "idle"
    /\ _stop_event' = TRUE
    /\ cpc' = [cpc EXCEPT ![c] = "stop_if"]
    /\ CallerFrame
    /\ UNCHANGED <<_monitor_thread, threads, joinTarget, quiet>>

\* line 116; with no thread the call logs (line 119) and returns
StopIf(c) ==
    /\ cpc[c] = "stop_if"
    /\ cpc' = [cpc EXCEPT ![c] = IF _monitor_thread # None THEN "stop_join" ELSE "idle"]
    /\ quiet' = IF _monitor_thread # None THEN quiet ELSE TRUE
    /\ CallerFrame
    /\ UNCHANGED <<_stop_event, _monitor_thread, threads, joinTarget>>

\* line 117, the call: the attribute is read again; AttributeError on None,
\* RuntimeError on a thread that was not started
StopJoinBegin(c) ==
    /\ cpc[c] = "stop_join"
    /\ IF _monitor_thread # None /\ threads[_monitor_thread] # "new"
       THEN /\ joinTarget' = [joinTarget EXCEPT ![c] = _monitor_thread]
            /\ cpc' = [cpc EXCEPT ![c] = "stop_joining"]
       ELSE /\ joinTarget' = joinTarget
            /\ cpc' = [cpc EXCEPT ![c] = "idle"]
    /\ CallerFrame
    /\ UNCHANGED <<_stop_event, _monitor_thread, threads, quiet>>

\* line 117, the return of join(): the joined thread has ended
StopJoinEnd(c) ==
    /\ cpc[c] = "stop_joining"
    /\ threads[joinTarget[c]] = "dead"
    /\ joinTarget' = [joinTarget EXCEPT ![c] = None]
    /\ cpc' = [cpc EXCEPT ![c] = "stop_none"]
    /\ CallerFrame
    /\ UNCHANGED <<_stop_event, _monitor_thread, threads, quiet>>

\* lines 118-119, and the return
StopNone(c) ==
    /\ cpc[c] = "stop_none"
    /\ _monitor_thread' = None
    /\ cpc' = [cpc EXCEPT ![c] = "idle"]
    /\ quiet' = TRUE
    /\ CallerFrame
    /\ UNCHANGED <<_stop_event, threads, joinTarget>>

\* ------------------------------------------------------------ _ping_ip
\* lines 75-78
on_success(st, response_time, now) ==
    [st EXCEPT !.is_online = TRUE,
               !.response_time = response_time.val * 1000,
               !.last_success = now,
               !.consecutive_failures = 0]

\* the failure branch without line 81
on_failure_keeps_time(st, now) ==
    [st EXCEPT !.is_online = FALSE,
               !.last_failure = now,
               !.consecutive_failures = @ + 1]

\* lines 80-83
on_failure(st, now) ==
    [st EXCEPT !.is_online = FALSE,
               !.response_time = 0,
               !.last_failure = now,
               !.consecutive_failures = @ + 1]

\* lines 74-83: the branch is taken on "is not None"
ping_update(st, response_time, now) ==
    IF response_time.tag # "None"
    THEN on_success(st, response_time, now)
    ELSE on_failure(st, now)

\* A monitor-thread step leaves the callers and the thread reference alone.
WorkerFrame ==
    /\ call' = NoCall
    /\ UNCHANGED <<_stop_event, _monitor_thread, _callbacks, cpc, joinTarget, quiet,
                   alertVars>>

\* a loop condition without its "not"
while_set(is_set) == is_set

\* line 97: while not self._stop_event.is_set()
while_not_set(is_set) == ~is_set

\* line 97: the loop condition; the thread ends when the event is set
WhileCheck(t) ==
    /\ threads[t] = "alive"
    /\ wpc[t] = "while"
    /\ IF ~while_not_set(_stop_event)
       THEN /\ threads' = [threads EXCEPT ![t] = "dead"]
            /\ wpc' = wpc
       ELSE /\ threads' = threads
            /\ wpc' = [wpc EXCEPT ![t] = "snap"]
    /\ WorkerFrame
    /\ UNCHANGED <<monitored_ips, held, queue, cur, status, cbIdx, clock, probeHist,
                   notifyHist>>

\* line 98: list(self.monitored_ips.keys())
Snapshot(t) ==
    /\ threads[t] = "alive"
    /\ wpc[t] = "snap"
    /\ queue' = [queue EXCEPT ![t] = Keys(monitored_ips)]
    /\ wpc' = [wpc EXCEPT ![t] = "for"]
    /\ WorkerFrame
    /\ UNCHANGED <<monitored_ips, held, threads, cur, status, cbIdx, clock, probeHist,
                   notifyHist>>

\* a for loop without the test of the event
no_stop_check(is_set) == FALSE

\* lines 99-100: if self._stop_event.is_set(): break
stop_check(is_set) == is_set

\* lines 98-101 and 71: the next address, the stop check, the call of
\* ping3.ping; the loop falls through to the sleep when the snapshot is used
\* up, and breaks to it when the event is set.  A host's probe is in flight
\* from its stop check on.
ForNext(t) ==
    /\ threads[t] = "alive"
    /\ wpc[t] = "for"
    /\ IF queue[t] = <<>> \/ stop_check(_stop_event)
       THEN /\ wpc' = [wpc EXCEPT ![t] = "sleep"]
            /\ UNCHANGED <<queue, cur>>
       ELSE /\ wpc' = [wpc EXCEPT ![t] = "ping"]
            /\ cur' = [cur EXCEPT ![t] = Head(queue[t])]
            /\ queue' = [queue EXCEPT ![t] = Tail(queue[t])]
    /\ delivered' = [delivered EXCEPT ![t] = <<>>]
    /\ raised' = [raised EXCEPT ![t] = FALSE]
    /\ WorkerFrame
    /\ UNCHANGED <<monitored_ips, held, threads, status, cbIdx, clock, probeHist>>

\* an exception of the probe counted as a failed probe
probe_error_counts(st, now) == on_failure(st, now)

\* lines 71 and 92-93: an exception of ping3.ping leaves the try block before
\* any field of the record is assigned
probe_error(st, now) == st

\* lines 71-83 and 92: ping3.ping returns or raises; the record is looked
\* up (KeyError when the address was removed) and updated; an exception goes
\* to the handler
PingReturn(t, response_time) ==
    /\ threads[t] = "alive"
    /\ wpc[t] = "ping"
    /\ IF response_time.tag = "raise" \/ ~Has(monitored_ips, cur[t])
       THEN /\ wpc' = [wpc EXCEPT ![t] = "except"]
            /\ cur' = cur
            /\ monitored_ips' =
                  IF Has(monitored_ips, cur[t])
                  THEN Put(monitored_ips, cur[t],
                           probe_error(Get(monitored_ips, cur[t]), clock + 1))
                  ELSE monitored_ips
            /\ UNCHANGED <<held, status, clock, probeHist>>
       ELSE /\ clock < MaxClock
            /\ clock' = clock + 1
            /\ LET st == ping_update(Get(monitored_ips, cur[t]), response_time, clock + 1)
               IN /\ monitored_ips' = Put(monitored_ips, cur[t], st)
                  /\ held' = write_through(held, cur[t], st)
                  /\ status' = [status EXCEPT ![t] = st]
            /\ wpc' = [wpc EXCEPT ![t] = "notify"]
            /\ cur' = cur
            /\ run' = [run EXCEPT ![cur[t]] =
                         IF response_time.tag = "float" THEN -1
                         ELSE IF @ < 0 THEN 1 ELSE @ + 1]
    /\ WorkerFrame
    /\ UNCHANGED <<threads, queue, cbIdx, notifyHist>>

\* lines 92-93: the handler logs the exception of the probe or of the lookup,
\* and _ping_ip returns to the loop
PingExcept(t) ==
    /\ threads[t] = "alive"
    /\ wpc[t] = "except"
    /\ wpc' = [wpc EXCEPT ![t] = "for"]
    /\ cur' = [cur EXCEPT ![t] = ""]
    /\ WorkerFrame
    /\ UNCHANGED <<monitored_ips, held, threads, queue, status, cbIdx, clock, probeHist,
                   notifyHist>>

\* _ping_ip returns: its locals are gone
PingIpReturn(t) ==
    /\ wpc' = [wpc EXCEPT ![t] = "for"]
    /\ cur' = [cur EXCEPT ![t] = ""]
    /\ status' = [status EXCEPT ![t] = NoStatus]
    /\ cbIdx' = [cbIdx EXCEPT ![t] = 1]

\* an observer's exception with no handler around the loop: it leaves
\* _monitor_loop and the thread ends
callback_error_uncaught(t) ==
    /\ PingIpReturn(t)
    /\ threads' = [threads EXCEPT ![t] = "dead"]

\* lines 92-93: the handler catches an observer's exception, logs it, and
\* _ping_ip returns to the loop
callback_error(t) ==
    /\ PingIpReturn(t)
    /\ threads' = threads

\* lines 89-90 and 92-93: the next observer is called with (ip, status); an
\* exception leaves the loop for the handler of line 92
NotifyCall(t, outcome) ==
    /\ threads[t] = "alive"
    /\ wpc[t] = "notify"
    /\ cbIdx[t] <= Len(_callbacks)
    /\ delivered' = [delivered EXCEPT ![t] = Append(@, _callbacks[cbIdx[t]])]
    /\ IF outcome = "ok"
       THEN /\ cbIdx' = [cbIdx EXCEPT ![t] = @ + 1]
            /\ UNCHANGED <<threads, wpc, cur, status, raised>>
       ELSE /\ callback_error(t)
            /\ raised' = [raised EXCEPT ![t] = TRUE]
    /\ WorkerFrame
    /\ UNCHANGED <<monitored_ips, held, queue, clock, probeHist>>

\* line 90, with on_status_update as the observer called: it calls send_alert
\* on this thread (main_window.py line 298), and send_alert waits in a channel
\* call that has no timeout (smtplib.SMTP and its login and send_message,
\* alert_manager.py lines 106-109; notification.notify, line 69) and that does
\* not return this time
NotifyHang(t) ==
    /\ threads[t] = "alive"
    /\ wpc[t] = "notify"
    /\ cbIdx[t] <= Len(_callbacks)
    /\ delivered' = [delivered EXCEPT ![t] = Append(@, _callbacks[cbIdx[t]])]
    /\ wpc' = [wpc EXCEPT ![t] = "hung"]
    /\ WorkerFrame
    /\ UNCHANGED <<monitored_ips, held, threads, queue, cur, status, cbIdx, raised,
                   clock, probeHist>>

\* line 89: the list is used up
NotifyEnd(t) ==
    /\ threads[t] = "alive"
    /\ wpc[t] = "notify"
    /\ cbIdx[t] > Len(_callbacks)
    /\ PingIpReturn(t)
    /\ WorkerFrame
    /\ UNCHANGED <<monitored_ips, held, threads, queue, clock, probeHist, notifyHist>>

\* line 102: the thread is in time.sleep(self.interval) and the interval runs
\* out; nothing else ends the call
SleepElapse(t) ==
    /\ threads[t] = "alive"
    /\ wpc[t] = "sleep"
    /\ wpc' = [wpc EXCEPT ![t] = "slept"]
    /\ WorkerFrame
    /\ UNCHANGED <<monitored_ips, held, threads, queue, cur, status, cbIdx, clock, probeHist,
                   notifyHist>>

\* line 102: time.sleep(self.interval) returns
Sleep(t) ==
    /\ threads[t] = "alive"
    /\ wpc[t] = "slept"
    /\ wpc' = [wpc EXCEPT ![t] = "while"]
    /\ queue' = [queue EXCEPT ![t] = <<>>]
    /\ WorkerFrame
    /\ UNCHANGED <<monitored_ips, held, threads, cur, status, cbIdx, clock, probeHist,
                   notifyHist>>

\* ---------------------------------------------------------- specifications
Registry(c) ==
    \/ \E a \in AddArgs : AddIp(c, a[1], a[2])
    \/ \E ip \in Hosts : RemoveIp(c, ip)
    \/ \E callback \in {Observers[i] : i \in 1..Len(Observers)} : RegisterCallback(c, callback)

Start(c) ==
    \/ StartCheckNone(c)
    \/ StartCheckAlive(c)
    \/ StartClear(c)
    \/ StartNew(c)
    \/ StartDaemon(c)
    \/ StartRun(c)

Stop(c) ==
    \/ StopSet(c)
    \/ StopIf(c)
    \/ StopJoinBegin(c)
    \/ StopJoinEnd(c)
    \/ StopNone(c)

Worker(t) ==
    \/ WhileCheck(t)
    \/ Snapshot(t)
    \/ ForNext(t)
    \/ \E response_time \in PingResults : PingReturn(t, response_time)
    \/ PingExcept(t)
    \/ \E outcome \in {"ok", "raise"} : NotifyCall(t, outcome)
    \/ NotifyEnd(t)
    \/ SleepElapse(t)
    \/ Sleep(t)

\* the application: every call comes from the one GUI thread
Next ==
    \/ \E c \in GuiThread : Registry(c)
    \/ \E c \in GuiThread : Start(c)
    \/ \E c \in GuiThread : Stop(c)
    \/ \E t \in Threads : Worker(t)

Spec == Init /\ [][Next]_vars

\* the application with observers that do alert-channel I/O: a call of an
\* observer returns, raises, or waits in the channel for good
NextHang ==
    \/ Next
    \/ \E t \in Threads : NotifyHang(t)

SpecHang == Init /\ [][NextHang]_vars

\* the class called from several threads at once: start() and stop() from any
\* of them, on a monitor that has one host and one observer registered
InitApi ==
    /\ monitored_ips = <<NewStatus("10.0.0.1", "A")>>
    /\ _stop_event = FALSE
    /\ _monitor_thread = None
    /\ _callbacks = <<Observers[1]>>
    /\ threads = [t \in Threads |-> "none"]
    /\ wpc = [t \in Threads |-> "while"]
    /\ queue = [t \in Threads |-> <<>>]
    /\ cur = [t \in Threads |-> ""]
    /\ status = [t \in Threads |-> NoStatus]
    /\ cbIdx = [t \in Threads |-> 1]
    /\ cpc = [c \in ApiThreads |-> "idle"]
    /\ joinTarget = [c \in ApiThreads |-> None]
    /\ clock = 0
    /\ held = NoHeld
    /\ call = NoCall
    /\ quiet = FALSE
    /\ run = [h \in Hosts |-> 0]
    /\ delivered = [t \in Threads |-> <<>>]
    /\ raised = [t \in Threads |-> FALSE]
    /\ AlertInit

NextApi ==
    \/ \E c \in ApiThreads : Start(c)
    \/ \E c \in ApiThreads : Stop(c)
    \/ \E t \in Threads : Worker(t)

SpecApi == InitApi /\ [][NextApi]_vars

\* the monitor of the application with one host and one observer registered,
\* under a scheduler that lets every monitor thread run: a probe returns or
\* raises, an observer returns or raises, the sleep interval runs out
InitLive == InitApi

NextLive ==
    \/ \E c \in GuiThread, a \in AddArgs : AddIp(c, a[1], a[2])
    \/ \E c \in GuiThread : Start(c)
    \/ \E c \in GuiThread : Stop(c)
    \/ \E t \in Threads : Worker(t)

SpecLive ==
    /\ InitLive
    /\ [][NextLive]_vars
    /\ \A t \in Threads : WF_vars(Worker(t))

\* the application with its reads of the registry (get_status and
\* get_all_status, of which the caller keeps nothing), up to the last but one
\* probe of a run
NextCalls ==
    \/ \E c \in GuiThread : Registry(c)
    \/ \E c \in GuiThread, ip \in Hosts : GetStatus(c, ip, FALSE)
    \/ \E c \in GuiThread : GetAllStatus(c, FALSE)
    \/ \E c \in GuiThread : Start(c)
    \/ \E c \in GuiThread : Stop(c)
    \/ \E t \in Threads :
          \/ WhileCheck(t)
          \/ Snapshot(t)
          \/ ForNext(t)
          \/ \E response_time \in PingResults :
                clock + 1 < MaxClock /\ PingReturn(t, response_time)
          \/ PingExcept(t)
          \/ \E outcome \in {"ok", "raise"} : NotifyCall(t, outcome)
          \/ NotifyEnd(t)
          \/ SleepElapse(t)
          \/ Sleep(t)

SpecCalls == Init /\ [][NextCalls]_vars

\* ------------------------------------------- the alert manager in the GUI
\* An alert-manager step leaves the threads and the callers alone.
AlertFrame ==
    /\ call' = NoCall
    /\ UNCHANGED <<_stop_event, _monitor_thread, _callbacks, threads, workerVars,
                   cpc, joinTarget, quiet, notifyHist, failure_threshold, config>>

ChannelSet == {Channels[i] : i \in 1..Len(Channels)}

\* send_alert, lines 56-89, called at time now; fails are the channels whose
\* library call raises this time
Dispatch(op, ip, message, alert_type, fails, now) ==
    LET out == send_channels(config, fails)
    IN /\ alert_history' = append_alert(alert_history, alert_data(now, ip, message, alert_type))
       /\ alert' = [NoAlert EXCEPT !.op = op, !.sent = TRUE, !.ip = ip,
                                    !.message = message, !.type = alert_type,
                                    !.attempted = out.attempted,
                                    !.failed = {ch \in fails : \E i \in 1..Len(out.attempted) :
                                                                  out.attempted[i] = ch},
                                    !.raised = out.raised,
                                    !.updated = (op = "probe"),
                                    !.prev = Len(alert_history)]

\* send_alert(ip, message, alert_type) called by the application
SendAlert(ip, message, alert_type, fails) ==
    /\ clock < MaxAlerts
    /\ clock' = clock + 1
    /\ Dispatch("send", ip, message, alert_type, fails, clock + 1)
    /\ AlertFrame
    /\ UNCHANGED <<monitored_ips, held, file, probeHist>>

\* main_window.py lines 294-301: the observer the application registers
on_status_update(ip, st, fails, now) ==
    IF threshold_reached(st.consecutive_failures, failure_threshold)
    THEN /\ now < MaxTime
         /\ clock' = now + 1
         /\ Dispatch("probe", ip, Message(ip, st.consecutive_failures), "error", fails,
                     now + 1)
    ELSE /\ clock' = now
         /\ alert_history' = alert_history
         /\ alert' = [NoAlert EXCEPT !.op = "probe", !.ip = ip, !.updated = TRUE,
                                      !.prev = Len(alert_history)]

\* _ping_ip(ip), ping_monitor.py lines 68-93, with on_status_update as the one
\* observer: the probe, the update of the record, the call of the observer
PingIp(ip, response_time, fails) ==
    /\ Has(monitored_ips, ip)
    /\ IF response_time.tag = "raise"
       THEN /\ alert' = [NoAlert EXCEPT !.op = "probe", !.prev = Len(alert_history)]
            /\ UNCHANGED <<monitored_ips, held, clock, alert_history, probeHist>>
       ELSE /\ clock < MaxTime
            /\ LET st == ping_update(Get(monitored_ips, ip), response_time, clock + 1)
               IN /\ monitored_ips' = Put(monitored_ips, ip, st)
                  /\ held' = write_through(held, ip, st)
                  /\ on_status_update(ip, st, fails, clock + 1)
            /\ run' = [run EXCEPT ![ip] =
                         IF response_time.tag = "float" THEN -1
                         ELSE IF @ < 0 THEN 1 ELSE @ + 1]
    /\ AlertFrame
    /\ UNCHANGED file

\* get_alert_history(limit), lines 115-117
GetAlertHistory(limit) ==
    /\ alert' = [NoAlert EXCEPT !.op = "get", !.limit = limit,
                                 !.result = get_alert_history(alert_history, limit),
                                 !.prev = Len(alert_history)]
    /\ AlertFrame
    /\ UNCHANGED <<monitored_ips, held, clock, alert_history, file, probeHist>>

\* clear_alert_history(), lines 119-121
ClearAlertHistory ==
    /\ alert_history' = <<>>
    /\ alert' = [NoAlert EXCEPT !.op = "clear", !.prev = Len(alert_history)]
    /\ AlertFrame
    /\ UNCHANGED <<monitored_ips, held, clock, file, probeHist>>

\* save_alert_history(filepath), lines 123-130: open(filepath, "w") raises and
\* the file stays as it was, or json.dump raises after open truncated the
\* file, or the history is written; the handler of line 129 logs an exception
SaveAlertHistory(outcome) ==
    /\ file' = CASE outcome = "ok" ->
                    [exists |-> TRUE, valid |-> TRUE, doc |-> json_dump(alert_history)]
                [] outcome = "open_raises" -> file
                [] outcome = "dump_raises" ->
                    [exists |-> TRUE, valid |-> FALSE, doc |-> <<>>]
    /\ alert' = [NoAlert EXCEPT !.op = "save", !.ok = (outcome = "ok"),
                                 !.raised = except_Exception(outcome # "ok"),
                                 !.prev = Len(alert_history)]
    /\ AlertFrame
    /\ UNCHANGED <<monitored_ips, held, clock, alert_history, probeHist>>

\* load_alert_history(filepath), lines 132-140: nothing when the file does not
\* exist; open or json.load raises (on a document that is not JSON) and the
\* handler of line 139 logs it; or the history is replaced by what the file
\* holds
LoadAlertHistory(outcome) ==
    /\ LET failed == file.exists /\ (outcome = "read_raises" \/ ~file.valid)
       IN /\ alert_history' = IF ~file.exists THEN alert_history
                               ELSE IF failed THEN load_failed(alert_history)
                               ELSE load_history(alert_history, file.doc)
          /\ alert' = [NoAlert EXCEPT !.op = "load", !.ok = (file.exists /\ ~failed),
                                       !.raised = except_Exception(failed),
                                       !.prev = Len(alert_history)]
    /\ AlertFrame
    /\ UNCHANGED <<monitored_ips, held, clock, file, probeHist>>

\* main_window.py show_settings, lines 360-383, with the dialog accepted: the
\* threshold of the monitor is set and the window gets a new AlertManager,
\* built from the settings, whose __init__ (alert_manager.py lines 30-33)
\* takes the configuration, the recipients from the environment, and starts
\* with an empty history
ShowSettings(cfg, threshold) ==
    /\ failure_threshold' = threshold
    /\ config' = cfg
    /\ alert_history' = <<>>
    /\ alert' = [NoAlert EXCEPT !.op = "settings", !.prev = Len(alert_history)]
    /\ call' = NoCall
    /\ UNCHANGED <<_stop_event, _monitor_thread, _callbacks, threads, workerVars,
                   cpc, joinTarget, quiet, notifyHist>>
    /\ UNCHANGED <<monitored_ips, held, clock, file, probeHist>>

\* shared by the two specifications below: no monitor thread, no caller in
\* start() or stop()
NoThreads ==
    /\ _stop_event = FALSE
    /\ _monitor_thread = None
    /\ _callbacks = <<Observers[1]>>
    /\ threads = [t \in Threads |-> "none"]
    /\ wpc = [t \in Threads |-> "while"]
    /\ queue = [t \in Threads |-> <<>>]
    /\ cur = [t \in Threads |-> ""]
    /\ status = [t \in Threads |-> NoStatus]
    /\ cbIdx = [t \in Threads |-> 1]
    /\ cpc = [c \in ApiThreads |-> "idle"]
    /\ joinTarget = [c \in ApiThreads |-> None]
    /\ clock = 0
    /\ held = NoHeld
    /\ call = NoCall
    /\ quiet = FALSE
    /\ run = [h \in Hosts |-> 0]
    /\ delivered = [t \in Threads |-> <<>>]
    /\ raised = [t \in Threads |-> FALSE]

\* the alert manager on its own, built with any AlertConfig: the calls the
\* windows make on it
InitAlert ==
    /\ NoThreads
    /\ monitored_ips = <<>>
    /\ failure_threshold = DefaultThreshold
    /\ config \in Configs
    /\ alert_history = <<>>
    /\ file = NoFile
    /\ alert = NoAlert

NextAlert ==
    \/ \E args \in AlertArgs, fails \in SUBSET ChannelSet :
          SendAlert(args[1], args[2], args[3], fails)
    \/ \E limit \in 0..MaxLimit : GetAlertHistory(limit)
    \/ ClearAlertHistory
    \/ \E outcome \in {"ok", "open_raises", "dump_raises"} : SaveAlertHistory(outcome)
    \/ \E outcome \in {"ok", "read_raises"} : LoadAlertHistory(outcome)

SpecAlert == InitAlert /\ [][NextAlert]_vars

\* the alert manager of the main window: AlertManager() of setup_monitor
\* (main_window.py line 218), the calls the windows make on it, and the
\* settings dialog, which replaces it
InitSettings ==
    /\ NoThreads
    /\ monitored_ips = <<>>
    /\ AlertInit

NextSettings ==
    \/ NextAlert
    \/ \E cfg \in Configs, threshold \in 1..MaxThreshold : ShowSettings(cfg, threshold)

SpecSettings == InitSettings /\ [][NextSettings]_vars

\* the probes of two registered hosts, one after the other, each with the
\* notification of on_status_update, for a failure threshold from the
\* settings and the default alert configuration
InitObserver ==
    /\ NoThreads
    /\ monitored_ips = <<NewStatus("10.0.0.1", "A"), NewStatus("10.0.0.2", "A")>>
    /\ failure_threshold \in 1..MaxThreshold
    /\ config = DefaultConfig
    /\ alert_history = <<>>
    /\ file = NoFile
    /\ alert = NoAlert

NextObserver ==
    \E ip \in Hosts, response_time \in PingResults, fails \in SUBSET ChannelSet :
        PingIp(ip, response_time, fails)

SpecObserver == InitObserver /\ [][NextObserver]_vars

\* a caller that keeps what get_status and get_all_status return, while hosts
\* are added, removed and probed
InitRead ==
    /\ NoThreads
    /\ monitored_ips = <<>>
    /\ AlertInit

NextRead ==
    \/ \E c \in GuiThread, a \in AddArgs : AddIp(c, a[1], a[2])
    \/ \E c \in GuiThread, ip \in Hosts : RemoveIp(c, ip)
    \/ \E c \in GuiThread, ip \in Hosts : GetStatus(c, ip, TRUE)
    \/ \E c \in GuiThread : GetAllStatus(c, TRUE)
    \/ \E c \in GuiThread, ip \in Hosts : ReturnedDel(c, ip)
    \/ \E c \in GuiThread, a \in AddArgs : ReturnedPut(c, a[1], a[2])
    \/ \E ip \in Hosts, response_time \in PingResults :
          clock < MaxClock /\ PingIp(ip, response_time, {})

SpecRead == InitRead /\ [][NextRead]_vars

\* -------------------------------------------------------------- properties
Records == {monitored_ips[i] : i \in 1..Len(monitored_ips)}

AliveThreads == {t \in Threads : threads[t] = "alive"}

\* C1: after N failed probes in a row of a host (since it was added or last
\* answered) its record has consecutive_failures = N and is_online false;
\* after a probe that got a latency it has consecutive_failures = 0 and
\* is_online true.
C1_FailedProbesCounted ==
    \A r \in Records :
        /\ run[r.ip] > 0 => (r.consecutive_failures = run[r.ip] /\ ~r.is_online)
        /\ run[r.ip] < 0 => (r.consecutive_failures = 0 /\ r.is_online)

C3_NonLatencyIsOffline ==
    \A r \in Records : run[r.ip] > 0 => ~r.is_online

\* C4: at the return of a stop() call no monitor thread is alive, and from then
\* until a start() call begins no probe is issued.
C4_StopMeansStopped ==
    [][ /\ \A c \in ApiThreads :
              (cpc[c] \in {"stop_if", "stop_none"} /\ cpc'[c] = "idle")
                  => \A t \in Threads : threads'[t] # "alive"
        /\ \A t \in Threads :
              (quiet /\ wpc[t] = "for" /\ wpc'[t] = "ping") => FALSE ]_vars

\* C5: at most one thread runs the monitor loop at any time.
C5_OneWorker == Cardinality(AliveThreads) <= 1

\* the step of monitor thread t ends the notification of an update
NotificationEnds(t) == wpc[t] = "notify" /\ wpc'[t] # "notify"

\* C6: when an observer raised during the notification of an update, every
\* registered observer has been invoked for that update when the notification
\* ends.
C6_RaiseSparesSiblings ==
    [][ \A t \in Threads :
          (NotificationEnds(t) /\ raised'[t])
              => \A i \in 1..Len(_callbacks) :
                    \E j \in 1..Len(delivered'[t]) : delivered'[t][j] = _callbacks[i] ]_vars

\* C7: an observer's exception does not abort the cycle: the step leaves the
\* registry as the probe updated it, the thread alive and back in the for loop
\* with the rest of the snapshot; a cycle reaches its sleep with part of the
\* snapshot left only when stop was requested; and the thread ends only on a
\* stop request.
C7_RaiseKeepsCycle ==
    /\ [][ \A t \in Threads :
             /\ (raised'[t] /\ ~raised[t])
                   => /\ monitored_ips' = monitored_ips
                      /\ threads'[t] = "alive"
                      /\ wpc'[t] = "for"
                      /\ queue'[t] = queue[t]
             /\ (threads[t] = "alive" /\ threads'[t] = "dead") => _stop_event ]_vars
    /\ [](\A t \in Threads : (wpc[t] = "sleep" /\ queue[t] # <<>>) => _stop_event)

\* an observer raised during the update of a host, and the thread is probing
\* the next host of the same snapshot
C7_Witness ==
    \E t \in Threads :
        /\ threads[t] = "alive"
        /\ raised[t]
        /\ wpc[t] = "for"
        /\ queue[t] # <<>>
        /\ ~_stop_event

\* C8: the notification of an update ends with every registered observer
\* invoked exactly once, in registration order.
C8_AllObserversInOrder ==
    [][ \A t \in Threads : NotificationEnds(t) => delivered'[t] = _callbacks ]_vars

\* C9: no observer is invoked with an address that is not in the registry, a
\* step of the monitor thread adds no key to the registry, and the thread ends
\* only on a stop request.
C9_RemoveNeverDangles ==
    [][ \A t \in Threads :
          /\ Len(delivered'[t]) > Len(delivered[t]) => Has(monitored_ips, cur[t])
          /\ workerVars' # workerVars => KeySet(monitored_ips') \subseteq KeySet(monitored_ips)
          /\ (threads[t] = "alive" /\ threads'[t] = "dead") => _stop_event ]_vars

\* C10: add_ip of an address that is registered leaves the registry as it was,
\* and no address has two entries.
C10_AddIdempotent ==
    /\ [][ (call'.op = "add" /\ Has(monitored_ips, call'.ip))
              => monitored_ips' = monitored_ips ]_vars
    /\ [](\A i, j \in 1..Len(monitored_ips) :
              monitored_ips[i].ip = monitored_ips[j].ip => i = j)

\* add_ip was called with another group for a registered address that has
\* failed probes, and the record still has its group and its count
C10_Witness ==
    /\ call.op = "add"
    /\ \E r \in Records :
          /\ r.ip = call.ip
          /\ r.group # call.group
          /\ r.consecutive_failures > 0

\* C11: add_ip of an address that is not registered puts one record for it at
\* the end of the registry, with is_online false, consecutive_failures 0,
\* response_time 0, no last_success, no last_failure and the group given, and
\* leaves the other records as they were; this is so too when the address was
\* registered before, failed probes and was removed.
C11_AddInsertsFresh ==
    [][ (call'.op = "add" /\ ~Has(monitored_ips, call'.ip))
          => /\ Len(monitored_ips') = Len(monitored_ips) + 1
             /\ SubSeq(monitored_ips', 1, Len(monitored_ips)) = monitored_ips
             /\ LET r == monitored_ips'[Len(monitored_ips')]
                IN /\ r.ip = call'.ip
                   /\ r.group = call'.group
                   /\ ~r.is_online
                   /\ r.consecutive_failures = 0
                   /\ r.response_time = 0
                   /\ r.last_success = None
                   /\ r.last_failure = None ]_vars

\* a monitor thread still holds the record of a host with failed probes, the
\* host was removed during the notification, and add_ip has just registered
\* its address again: the record in the registry is a fresh one
C11_Witness ==
    /\ call.op = "add"
    /\ \E t \in Threads :
          /\ wpc[t] = "notify"
          /\ cur[t] = call.ip
          /\ status[t].consecutive_failures > 0
          /\ Has(monitored_ips, call.ip)
          /\ Get(monitored_ips, call.ip).consecutive_failures = 0
          /\ Get(monitored_ips, call.ip).last_failure = None

\* C12: remove_ip leaves no record of the address, keeps every other record
\* and their order, leaves the registry as it was when the address is not
\* registered, and removing twice gives what removing once gives.
C12_RemoveIdempotent ==
    /\ [][ call'.op = "remove"
              => /\ ~Has(monitored_ips', call'.ip)
                 /\ monitored_ips' = SelectSeq(monitored_ips, LAMBDA r : r.ip # call'.ip)
                 /\ (~Has(monitored_ips, call'.ip) => monitored_ips' = monitored_ips) ]_vars
    /\ [](\A ip \in Hosts :
              remove_ip(remove_ip(monitored_ips, ip), ip) = remove_ip(monitored_ips, ip))

\* remove_ip was called for a host whose probe is in flight, and the record
\* of another host, with a failed probe, is still in the registry
C12_Witness ==
    /\ call.op = "remove"
    /\ ~Has(monitored_ips, call.ip)
    /\ \E t \in Threads : wpc[t] = "ping" /\ cur[t] = call.ip
    /\ \E r \in Records : r.consecutive_failures > 0

\* C13: send_alert never raises, whichever of its channels fail, and it tries
\* every enabled channel, in order, whether or not an earlier one failed.
C13_DispatchNeverRaises ==
    [][ alert'.sent
          => /\ ~alert'.raised
             /\ alert'.attempted = SelectSeq(Channels, LAMBDA ch : ChannelEnabled(config, ch)) ]_vars

\* a send_alert with the three channels enabled and all three failing
C13_Witness ==
    /\ alert.op = "send"
    /\ alert.sent
    /\ alert.failed = ChannelSet
    /\ alert.attempted = Channels

\* C14: every send_alert puts exactly one record at the end of the history,
\* with the address, the message and the severity it was given, whatever the
\* channels are and whether or not they fail.
C14_DispatchAppendsOne ==
    [][ alert'.sent
          => /\ Len(alert_history') = Len(alert_history) + 1
             /\ SubSeq(alert_history', 1, Len(alert_history)) = alert_history
             /\ LET r == alert_history'[Len(alert_history')]
                IN /\ r.ip = alert'.ip
                   /\ r.message = alert'.message
                   /\ r.type = alert'.type
                   /\ r.timestamp = isoformat(clock') ]_vars

\* a send_alert whose every enabled channel failed has put its record behind
\* the record of an alert for another address
C14_Witness ==
    /\ alert.op = "send"
    /\ alert.attempted # <<>>
    /\ alert.failed = {alert.attempted[i] : i \in 1..Len(alert.attempted)}
    /\ Len(alert_history) >= 2
    /\ alert_history[Len(alert_history)].ip = alert.ip
    /\ alert_history[1].ip # alert.ip

\* the smaller of two numbers
Min(a, b) == IF a < b THEN a ELSE b

\* C15: for a history of n records and every limit >= 0, limit 0 and
\* limit > n included, get_alert_history(limit) returns the last
\* min(limit, n) records, in insertion order.
C15_RecentReturnsLast ==
    alert.op = "get"
        => LET n == Len(alert_history)
           IN alert.result = SubSeq(alert_history, n - Min(alert.limit, n) + 1, n)

\* C16: save_alert_history without an I/O error writes a file from which the
\* history reads back as it is, and load_alert_history of a readable file
\* replaces the history by what the file holds; neither changes anything else.
C16_SaveLoadRoundTrip ==
    [][ /\ (alert'.op = "save" /\ alert'.ok)
              => /\ file'.exists /\ file'.valid
                 /\ json_load(file'.doc) = alert_history
                 /\ alert_history' = alert_history
        /\ (alert'.op = "load" /\ alert'.ok)
              => /\ alert_history' = json_load(file.doc)
                 /\ file' = file ]_vars

\* a history of two records was saved, another alert was added, and
\* load_alert_history has put the two saved records in the place of the three
C16_Witness ==
    /\ alert.op = "load"
    /\ alert.ok
    /\ alert.prev = 3
    /\ Len(alert_history) = 2
    /\ json_dump(alert_history) = file.doc
    /\ alert_history[1] # alert_history[2]

\* C17: every update of a record by a probe that leaves consecutive_failures
\* at or above failure_threshold makes on_status_update send one alert for the
\* host, with the count in its message, also when the update before it did;
\* an update that leaves the count below the threshold sends none.
C17_LevelTriggered ==
    [][ (alert'.op = "probe" /\ alert'.updated)
          => LET st == Get(monitored_ips', alert'.ip)
                 n == Len(alert_history)
             IN IF st.consecutive_failures >= failure_threshold
                THEN /\ alert'.sent
                     /\ Len(alert_history') = n + 1
                     /\ SubSeq(alert_history', 1, n) = alert_history
                     /\ alert_history'[n + 1].ip = alert'.ip
                     /\ alert_history'[n + 1].type = "error"
                     /\ alert_history'[n + 1].message = Message(alert'.ip, st.consecutive_failures)
                ELSE /\ ~alert'.sent
                     /\ alert_history' = alert_history ]_vars

\* a host stayed down past the threshold: the probe that took its count above
\* the threshold sent an alert, behind the alert of the probe before it
C17_Witness ==
    /\ alert.op = "probe"
    /\ alert.sent
    /\ Get(monitored_ips, alert.ip).consecutive_failures > failure_threshold
    /\ Len(alert_history) >= 2
    /\ alert_history[Len(alert_history) - 1].ip = alert.ip
    /\ alert_history[Len(alert_history) - 1].message
          = Message(alert.ip, Get(monitored_ips, alert.ip).consecutive_failures - 1)

\* C18: the probe of a host changes the record of that host and no other;
\* while one host has failed k probes in a row and another has answered its
\* last probe, the first has consecutive_failures = k and is offline and the
\* second has consecutive_failures = 0 and is online; and the observers of the
\* k-th failed probe are given a status with consecutive_failures = k.
C18_HostsIndependent ==
    /\ [][ \A t \in Threads :
              /\ (wpc[t] = "ping" /\ wpc'[t] # "ping")
                    => /\ Keys(monitored_ips') = Keys(monitored_ips)
                       /\ \A i \in 1..Len(monitored_ips) :
                             monitored_ips[i].ip # cur[t]
                                 => monitored_ips'[i] = monitored_ips[i]
              /\ (Len(delivered'[t]) > Len(delivered[t]) /\ run[cur[t]] > 0)
                    => status[t].consecutive_failures = run[cur[t]] ]_vars
    /\ [](\A r1, r2 \in Records :
              (run[r1.ip] > 0 /\ run[r2.ip] < 0)
                  => /\ r1.consecutive_failures = run[r1.ip] /\ ~r1.is_online
                     /\ r2.consecutive_failures = 0 /\ r2.is_online)

\* C19: while a monitor thread is inside the sleep between two cycles and
\* stop has been requested, the sleep can return at once, before the interval
\* has run out.
C19_SleepInterruptible ==
    \A t \in AliveThreads :
        (wpc[t] = "sleep" /\ _stop_event) => ENABLED Sleep(t)

C21_ListAllIsCopy ==
    [][ /\ (held.op = "list" /\ call'.op \in {"add", "remove"}) => HeldKeys' = HeldKeys
        /\ call'.op \in {"returned_del", "returned_put"} => monitored_ips' = monitored_ips ]_vars

\* the caller holds a dict with two hosts, has deleted one of them from it,
\* and the other has been removed from the registry: each of the two mappings
\* has the key the other lacks
C21_Witness ==
    /\ held.op = "list"
    /\ call.op = "remove"
    /\ Len(HeldKeys) = 1
    /\ Len(monitored_ips) = 1
    /\ HeldKeys # Keys(monitored_ips)
    /\ ~Has(monitored_ips, call.ip)

\* C22: get_status of an address that is not registered returns None; the
\* status it returns for a registered address is the record of the moment of
\* the call, and stays that whatever probes come after.
C22_GetIsSnapshot ==
    held.op = "get"
        => /\ (held.map = <<>> \/ (Len(held.map) = 1 /\ held.map[1].ip = held.ip))
           /\ \A i \in 1..Len(held.map) : held.map[i].obj = held.map[i].at

\* C23: an exception of ping3.ping is caught: the step leaves every record of
\* the registry as it was and the thread alive, and the handler returns to
\* the for loop with the rest of the snapshot.
C23_ProbeErrorIsNoFailure ==
    [][ \A t \in Threads :
          /\ (wpc[t] = "ping" /\ wpc'[t] = "except")
                => /\ monitored_ips' = monitored_ips
                   /\ threads'[t] = "alive"
                   /\ queue'[t] = queue[t]
          /\ (wpc[t] = "except" /\ wpc'[t] # "except")
                => /\ monitored_ips' = monitored_ips
                   /\ threads'[t] = "alive"
                   /\ wpc'[t] = "for"
                   /\ queue'[t] = queue[t] ]_vars

\* the probe of a host that has a failed probe on its record raised: the
\* thread is in the handler, the record still has its count, and another
\* host of the snapshot is still to come
C23_Witness ==
    \E t \in AliveThreads :
        /\ wpc[t] = "except"
        /\ queue[t] # <<>>
        /\ Has(monitored_ips, cur[t])
        /\ Get(monitored_ips, cur[t]).consecutive_failures = 1
        /\ run[cur[t]] = 1

\* a probe of host h is in flight
Probing(h) == \E t \in AliveThreads : wpc[t] = "ping" /\ cur[t] = h

\* C24: a monitor thread ends only when stop has been requested, and whenever
\* a monitor thread is alive and a host is registered, a probe of the host is
\* issued later on, unless stop is requested or the host is removed: a host
\* that stays registered is probed again and again, whatever the probes and
\* the observers return or raise.
C24_EveryHostProbed ==
    /\ [][ \A t \in Threads :
              (threads[t] = "alive" /\ threads'[t] = "dead") => _stop_event ]_vars
    /\ \A h \in Hosts :
          (AliveThreads # {} /\ Has(monitored_ips, h))
              ~> (Probing(h) \/ _stop_event \/ ~Has(monitored_ips, h))

\* the second host was added while the monitor was running, its first probe
\* failed, an observer has raised since, and a later cycle probes it again
C24_Witness ==
    \E t \in AliveThreads :
        /\ wpc[t] = "ping"
        /\ cur[t] = "10.0.0.2"
        /\ run["10.0.0.2"] = 1
        /\ ~_stop_event

\* C25: a stop() call that waits in join waits for a thread that ends: the
\* thread is dead already or the stop event is set, so that the loop
\* condition of line 97 ends it.
C25_StopReturns ==
    \A c \in ApiThreads :
        cpc[c] = "stop_joining"
            => (threads[joinTarget[c]] = "dead" \/ _stop_event)

\* C26: the probe step (lines 71-83) is the only writer of a record: every
\* other step, of add_ip, remove_ip, get_status, get_all_status,
\* register_callback, start, stop, an observer call or the loop, leaves each
\* record that is registered before and after it exactly as it was.
C26_SingleWriter ==
    [][ (\A t \in Threads : ~(wpc[t] = "ping" /\ wpc'[t] # "ping"))
            => \A i \in 1..Len(monitored_ips) :
                  Has(monitored_ips', monitored_ips[i].ip)
                      => Get(monitored_ips', monitored_ips[i].ip) = monitored_ips[i] ]_vars

\* get_status has just read, while the monitor runs, a record the probe step
\* has written, and a second host is registered
C26_Witness ==
    /\ call.op = "get"
    /\ AliveThreads # {}
    /\ Len(monitored_ips) = 2
    /\ Has(monitored_ips, call.ip)
    /\ Get(monitored_ips, call.ip).consecutive_failures = 1

\* the number of times ch occurs in seq
Count(seq, ch) == Cardinality({i \in 1..Len(seq) : seq[i] = ch})

\* C27: a dispatch attempts each channel exactly when the configuration
\* enables it, and then once: the desktop notification iff
\* desktop_notification, the sound iff sound_alert, the e-mail iff
\* email_enabled and the recipient list is not empty; a channel that raises
\* does not keep the later ones from being attempted.
C27_ChannelsWhenEnabled ==
    alert.sent =>
        /\ Count(alert.attempted, "desktop") = IF config.desktop_notification THEN 1 ELSE 0
        /\ Count(alert.attempted, "sound") = IF config.sound_alert THEN 1 ELSE 0
        /\ Count(alert.attempted, "email") =
              IF config.email_enabled /\ Len(config.email_recipients) > 0 THEN 1 ELSE 0

\* a dispatch with e-mail enabled but no recipient and the desktop
\* notification off: the sound is attempted, and raises, and nothing else is
C27_Witness ==
    /\ alert.sent
    /\ config.email_enabled
    /\ config.email_recipients = <<>>
    /\ ~config.desktop_notification
    /\ alert.attempted = <<"sound">>
    /\ alert.failed = {"sound"}

\* C28: a save that fails (open or json.dump raises), a load that fails (open
\* raises or the document is not JSON) and a load of a file that does not
\* exist leave the history in memory as it was, and the exception does not
\* leave the call.
C28_PersistenceFailureKeepsHistory ==
    [][ (alert'.op \in {"save", "load"} /\ ~alert'.ok)
            => (alert_history' = alert_history /\ ~alert'.raised) ]_vars

\* a load of a file that an interrupted save left malformed has failed, and
\* the two alerts dispatched before it are in the history
C28_Witness ==
    /\ alert.op = "load"
    /\ ~alert.ok
    /\ file.exists
    /\ ~file.valid
    /\ Len(alert_history) = 2

\* seq is the beginning of longer
IsPrefix(seq, longer) ==
    /\ Len(seq) <= Len(longer)
    /\ SubSeq(longer, 1, Len(seq)) = seq

\* C29: but for clear_alert_history and load_alert_history, every step of the
\* application on its alert manager, a change of the settings included, leaves
\* the history the application sees as it was or with new alerts at its end.
C29_HistoryAppendOnly ==
    [][ alert'.op \notin {"clear", "load"} => IsPrefix(alert_history, alert_history') ]_vars

\* C30: a monitor thread whose observer is in a channel call that does not
\* complete still has a step to take (it leaves the call and goes on with the
\* hosts and the cycles), and a stop() that waits for such a thread can end.
C30_ChannelCallBounded ==
    /\ \A t \in AliveThreads : wpc[t] = "hung" => ENABLED Worker(t)
    /\ \A c \in ApiThreads :
          (cpc[c] = "stop_joining" /\ wpc[joinTarget[c]] = "hung")
              => ENABLED (Worker(joinTarget[c]) \/ StopJoinEnd(c))

\* C31: the probe step writes only the fields of its outcome: after a probe
\* that got a latency the record's last_success is the time of the probe and
\* its last_failure is the one it had; after a probe that got none (a timeout
\* or an error) its last_failure is the time of the probe and its
\* last_success is the one it had; the ip and the group of the record are
\* the ones it had.
C31_ProbeWritesOwnFields ==
    [][ \A t \in Threads :
          (wpc[t] = "ping" /\ wpc'[t] = "notify") =>
              LET old == Get(monitored_ips, cur[t])
                  new == Get(monitored_ips', cur[t])
              IN /\ new.ip = old.ip
                 /\ new.group = old.group
                 /\ run'[cur[t]] < 0 =>
                        (new.last_success = clock' /\ new.last_failure = old.last_failure)
                 /\ run'[cur[t]] > 0 =>
                        (new.last_failure = clock' /\ new.last_success = old.last_success) ]_vars

====
